---------------------------- MODULE Spec2Model ----------------------------
(***************************************************************************)
(* A model of validate-rosetta's JSON encoding engine and its helpers:     *)
(*   - json/encode.go: escapeIndex, AppendString, AppendInt, AppendUint,   *)
(*     AppendBool, AppendNull, AppendHexBytes;                             *)
(*   - the JSON Decoder: ResetFromBytes / ResetFromReadCloser;             *)
(*   - retry/retry.go: Build and its interval loop;                        *)
(*   - command genapi: writeEncodeJSONFunc and the EncodeJSON methods it   *)
(*     generates, run on entities with presence flags;                     *)
(*   - api/support.go: EncodeNetworkForJSON.                               *)
(* Bytes are the integers 0..255.  A uint64 is held as its 8 bytes, least  *)
(* significant first; an int64/uint64 operand of the decimal formatter is  *)
(* held as 4 limbs of 16 bits, least significant first, so every operation *)
(* keeps its 64-bit width.                                                 *)
(***************************************************************************)
EXTENDS Integers, Sequences, FiniteSets, TLC

VARIABLES
    littleEndian,   \* byte order of the build (init() in encode.go probes it)
    s,              \* the string handed to escapeIndex / AppendString
    sbuf,           \* the buffer handed to AppendString
    idx,            \* what escapeIndex(s) returned
    sout,           \* what AppendString(sbuf, s) returned
    sdone,          \* which of the two calls have been made
    num,            \* the int64 / uint64 handed to AppendInt / AppendUint (4 limbs)
    bv,             \* the bool handed to AppendBool
    hv,             \* the byte slice handed to AppendHexBytes
    pbuf,           \* the buffer handed to the primitive
    pop,            \* the primitive that was called, "none" before the call
    pres,           \* its outcome: [panic, out]
    policy,         \* the Policy handed to Build
    rpc,            \* where Build is: "start", "check", "body", "done", "error"
    h,              \* Build's Handler under construction, then its result
    ival,           \* Build's local ival
    total,          \* Build's local total
    dbuf,           \* Decoder.buf: a slice [arr, len, cap]
    dcursor,        \* Decoder.cursor
    dpc,            \* "idle", or "read" inside ResetFromReadCloser's loop
    rbuf,           \* ResetFromReadCloser's local slice b
    rclosed,        \* whether the ReadCloser of the last call has been closed
    dlast,          \* the last reset that returned, "none" before the first
    derr,           \* what it returned: "nil" or the error
    ddata,          \* the data handed to the last ResetFromBytes
    rlog,           \* the calls ResetFromReadCloser made on its source, in order
    rdata,          \* the bytes the Reads of the call have delivered so far
    rsrc,           \* what the last Read of the call returned as its error
    erev,           \* the revision of genapi that wrote the EncodeJSON methods
    efields,        \* the entity's Model.Fields
    enetwork,       \* its Model.Network
    evals,          \* the entity: per field 0 (unset, empty) or 1, or a slice's length
    esub,           \* whether the client's network has a sub-network identifier
    eblob,          \* the prefix blob from EncodeNetworkForJSON, <<>> before
    eb0,            \* the buffer handed to EncodeJSON
    eout,           \* what EncodeJSON returned: [status, out]
    edone,          \* whether EncodeJSON has been called
    hnd,            \* a retry Handler
    its,            \* the Iterators made from it: per Iterator [made, h]
    rets,           \* per Iterator, what its calls of Next returned, in order
    slept,          \* per Iterator, the durations Next took off the front, in order
    mmap,           \* two raw maps: per map a function from its keys to values
    mobj,           \* per map, [done, bytes]: the MapObject MapObjectFrom gave
    meq,            \* [done, val]: what Equal said of the two MapObjects
    mjson,          \* [done, bytes]: what MarshalJSON gave for the first MapObject
    mapp,           \* [done, buf, out]: appendMapObject(buf, first MapObject) = out
    cnet,           \* the Client's netjson is set (SetNetwork was called)
    cretry,         \* the retry Handler passed to the endpoint call
    cit,            \* the call's Iterator
    cerr,           \* the call's local err: "nil" or "err"
    cpc,            \* "start", "loop" or "returned"
    cret,           \* what the call returned: "none", "nil", "CallError", "RosettaError"
    catt,           \* the number of HTTP requests sent (HTTPClient.Do)
    cok             \* a 200 response was received and decoded without error

strVars == <<s, sbuf, idx, sout, sdone>>
primVars == <<num, bv, hv, pbuf, pop, pres>>

retryVars == <<policy, rpc, h, ival, total>>

decVars == <<dbuf, dcursor, dpc, rbuf, rclosed, dlast, derr, ddata, rlog, rdata, rsrc>>

encVars == <<erev, efields, enetwork, evals, esub, eblob, eb0, eout, edone>>

iterVars == <<hnd, its, rets, slept>>

mapVars == <<mmap, mobj, meq, mjson, mapp>>

clientVars == <<cnet, cretry, cit, cerr, cpc, cret, catt, cok>>

vars == <<littleEndian, strVars, primVars, retryVars, decVars, encVars, iterVars,
          mapVars, clientVars>>

\* what the actions of one component leave alone
StrFrame == UNCHANGED <<littleEndian, primVars, retryVars, decVars, encVars, iterVars,
    mapVars, clientVars>>
PrimFrame == UNCHANGED <<littleEndian, strVars, retryVars, decVars, encVars, iterVars,
    mapVars, clientVars>>
RetryFrame == UNCHANGED <<littleEndian, strVars, primVars, decVars, encVars, iterVars,
    mapVars, clientVars>>
DecFrame == UNCHANGED <<littleEndian, strVars, primVars, retryVars, encVars, iterVars,
    mapVars, clientVars>>
EncFrame == UNCHANGED <<littleEndian, strVars, primVars, retryVars, decVars, iterVars,
    mapVars, clientVars>>
MapFrame == UNCHANGED <<littleEndian, strVars, primVars, retryVars, decVars, encVars,
    iterVars, clientVars>>
ClientFrame == UNCHANGED <<littleEndian, strVars, primVars, retryVars, decVars, encVars,
    iterVars, mapVars>>
IterFrame == UNCHANGED <<littleEndian, strVars, primVars, retryVars, decVars, encVars,
    mapVars, clientVars>>

-----------------------------------------------------------------------------
(* Bounds of the model.                                                    *)

\* length of a run of plain bytes in an input string
MaxRun == 8

\* the low limb of an integer operand ranges over 0..MaxLow and, for the small
\* negative numbers, over the MaxLow values below 2^16
MaxLow == 101

\* Policy fields: MinInterval and MaxInterval range over -1..MaxDur,
\* TotalLimit over -1..MaxTotal, MaxIterations over 0..MaxIter, BackoffFactor
\* over the multiples of 1/FactorDen up to MaxFactorNum/FactorDen
MaxDur == 3
MaxTotal == 4
MaxIter == 3
MaxFactorNum == 4
FactorDen == 2

\* A Handler is kept up to this length, which no Build that ends reaches
\* (such a Build stops at MaxIterations <= MaxIter elements, or with intervals
\* of at least 1 within TotalLimit <= MaxTotal); see BuildBody.
MaxHandlerLen == MaxTotal + MaxIter + 2

\* a ResetFromBytes input, and the bytes one ResetFromReadCloser call reads,
\* are at most MaxData bytes long
MaxData == 2

\* when append has to reallocate, the new capacity exceeds the length it
\* must hold by 0..MaxGrow
MaxGrow == 1

\* one ResetFromReadCloser call makes at most MaxReads calls of Read
MaxReads == 2

\* an entity has at most MaxFields fields, a slice at most MaxElems elements
\* (two fields give a first and a last one, both optional, both required or
\* mixed; two elements give the comma between elements)
MaxFields == 2
MaxElems == 2

\* a Handler given to Iter has at most MaxHandler intervals, each 0..MaxDur;
\* an Iterator is called at most MaxExtra times after it is exhausted
MaxHandler == 3
MaxExtra == 2

\* a raw map handed to MapObjectFrom has at most MaxEntries entries
MaxEntries == 2

-----------------------------------------------------------------------------
(* Bytes and 64-bit words.                                                 *)

Byte == 0..255

Pow2 == <<1, 2, 4, 8>>

BitOf(a, k) == (a \div Pow2[k]) % 2

\* the operations ^, | and & on two bits
XorBit(x, y) == (x + y) % 2
OrBit(x, y)  == IF x + y > 0 THEN 1 ELSE 0
AndBit(x, y) == x * y

\* the operations tabulated on nibbles, and a byte operation as its two nibbles
XorNibble ==
    [a \in 0..15 |-> [b \in 0..15 |->
        XorBit(BitOf(a, 1), BitOf(b, 1)) + 2 * XorBit(BitOf(a, 2), BitOf(b, 2))
        + 4 * XorBit(BitOf(a, 3), BitOf(b, 3)) + 8 * XorBit(BitOf(a, 4), BitOf(b, 4))]]
OrNibble ==
    [a \in 0..15 |-> [b \in 0..15 |->
        OrBit(BitOf(a, 1), BitOf(b, 1)) + 2 * OrBit(BitOf(a, 2), BitOf(b, 2))
        + 4 * OrBit(BitOf(a, 3), BitOf(b, 3)) + 8 * OrBit(BitOf(a, 4), BitOf(b, 4))]]
AndNibble ==
    [a \in 0..15 |-> [b \in 0..15 |->
        AndBit(BitOf(a, 1), BitOf(b, 1)) + 2 * AndBit(BitOf(a, 2), BitOf(b, 2))
        + 4 * AndBit(BitOf(a, 3), BitOf(b, 3)) + 8 * AndBit(BitOf(a, 4), BitOf(b, 4))]]

XorByte(a, b) == XorNibble[a \div 16][b \div 16] * 16 + XorNibble[a % 16][b % 16]
OrByte(a, b)  == OrNibble[a \div 16][b \div 16] * 16 + OrNibble[a % 16][b % 16]
AndByte(a, b) == AndNibble[a \div 16][b \div 16] * 16 + AndNibble[a % 16][b % 16]

\* uint64 operations on 8 bytes, least significant byte first
Xor64(a, b) == [i \in 1..8 |-> XorByte(a[i], b[i])]
Or64(a, b)  == [i \in 1..8 |-> OrByte(a[i], b[i])]
And64(a, b) == [i \in 1..8 |-> AndByte(a[i], b[i])]

RECURSIVE SubBytes(_, _, _, _)
SubBytes(a, b, i, borrow) ==
    IF i > 8 THEN <<>>
    ELSE LET d == a[i] - b[i] - borrow
         IN  <<(d + 256) % 256>> \o SubBytes(a, b, i + 1, IF d < 0 THEN 1 ELSE 0)

\* a - b modulo 2^64
Sub64(a, b) == SubBytes(a, b, 1, 0)

RECURSIVE MulBytes(_, _, _, _)
MulBytes(a, m, i, carry) ==
    IF i > 8 THEN <<>>
    ELSE LET p == a[i] * m + carry
         IN  <<p % 256>> \o MulBytes(a, m, i + 1, p \div 256)

\* a * m modulo 2^64, m a byte
Mul64(a, m) == MulBytes(a, m, 1, 0)

Zero64(a) == \A i \in 1..8 : a[i] = 0

RECURSIVE TrailingZeros8(_)
TrailingZeros8(b) == IF b % 2 = 1 THEN 0 ELSE 1 + TrailingZeros8(b \div 2)

\* bits.TrailingZeros64
TrailingZeros64(a) ==
    IF Zero64(a) THEN 64
    ELSE LET i == CHOOSE k \in 1..8 : a[k] # 0 /\ \A m \in 1..(k - 1) : a[m] = 0
         IN  8 * (i - 1) + TrailingZeros8(a[i])

-----------------------------------------------------------------------------
(* json/encode.go: the escape scanner.                                     *)

hex == <<48, 49, 50, 51, 52, 53, 54, 55, 56, 57, 97, 98, 99, 100, 101, 102>>
lsb == [i \in 1..8 |-> 1]
msb == [i \in 1..8 |-> 128]

\* the needEscape table: the bytes marked true
needEscape == (0..31) \cup {34, 92} \cup (128..255)

expand(b) == Mul64(lsb, b)

below(n, b) == Sub64(n, expand(b))

\* a test for the byte b that leaves out the borrow-propagating subtraction
containsNoBorrow(n, b) == Xor64(n, expand(b))

contains(n, b) == Sub64(Xor64(n, expand(b)), lsb)

\* the k-th uint64 (k from 0) of the string's memory, read in the build's byte order
stringToUint64Slice(str, le) ==
    [k \in 1..(Len(str) \div 8) |->
        [i \in 1..8 |-> IF le THEN str[8 * (k - 1) + i] ELSE str[8 * (k - 1) + 9 - i]]]

escapeMask(n) == Or64(Or64(Or64(n, below(n, 32)), contains(n, 34)), contains(n, 92))

RECURSIVE escapeTail(_, _)
escapeTail(str, i) ==
    IF i >= Len(str) THEN -1
    ELSE IF str[i + 1] \in needEscape THEN i
    ELSE escapeTail(str, i + 1)

RECURSIVE escapeChunks(_, _, _)
escapeChunks(str, chunks, k) ==
    IF k > Len(chunks) THEN escapeTail(str, Len(chunks) * 8)
    ELSE LET mask == And64(escapeMask(chunks[k]), msb)
         IN  IF ~Zero64(mask) THEN TrailingZeros64(mask) \div 8
             ELSE escapeChunks(str, chunks, k + 1)

escapeIndex(str, le) == escapeChunks(str, stringToUint64Slice(str, le), 1)


-----------------------------------------------------------------------------
(* unicode/utf8.DecodeRuneInString, as AppendString uses it: the rune and  *)
(* the size of the first UTF-8 sequence of a non-empty string, or          *)
(* (RuneError, 1) when the string does not start with a valid sequence.    *)

RuneError == [r |-> 65533, size |-> 1]

IsCont(str, i) == i <= Len(str) /\ str[i] \in 128..191

DecodeRuneInString(str) ==
    LET b0 == str[1]
        b1 == str[2]
        b2 == str[3]
        b3 == str[4]
        n  == Len(str)
    IN  IF b0 < 128 THEN [r |-> b0, size |-> 1]
        ELSE IF b0 \in 194..223 THEN
            IF IsCont(str, 2)
            THEN [r |-> (b0 - 192) * 64 + (b1 - 128), size |-> 2]
            ELSE RuneError
        ELSE IF b0 \in 224..239 THEN
            IF /\ n >= 3
               /\ b1 \in (IF b0 = 224 THEN 160..191 ELSE IF b0 = 237 THEN 128..159 ELSE 128..191)
               /\ IsCont(str, 3)
            THEN [r |-> (b0 - 224) * 4096 + (b1 - 128) * 64 + (b2 - 128), size |-> 3]
            ELSE RuneError
        ELSE IF b0 \in 240..244 THEN
            IF /\ n >= 4
               /\ b1 \in (IF b0 = 240 THEN 144..191 ELSE IF b0 = 244 THEN 128..143 ELSE 128..191)
               /\ IsCont(str, 3)
               /\ IsCont(str, 4)
            THEN [r |-> (b0 - 240) * 262144 + (b1 - 128) * 4096 + (b2 - 128) * 64 + (b3 - 128),
                  size |-> 4]
            ELSE RuneError
        ELSE RuneError

-----------------------------------------------------------------------------
(* json/encode.go: AppendString.                                           *)

\* str[i:j] of Go, i and j counted from 0
Slice(str, i, j) == SubSeq(str, i + 1, j)

\* the six bytes \u00XX of byte c
EscapeU00(c) == <<92, 117, 48, 48, hex[(c \div 16) + 1], hex[AndByte(c, 15) + 1]>>

\* the loop of AppendString from position j, with i the start of the pending
\* verbatim run; returns the buffer after the closing quote
RECURSIVE appendStringLoop(_, _, _, _)
appendStringLoop(buf, str, i, j) ==
    IF j >= Len(str) THEN (buf \o Slice(str, i, Len(str))) \o <<34>>
    ELSE LET c == str[j + 1]
             flush == buf \o Slice(str, i, j)
         IN  IF c >= 32 /\ c <= 127 /\ c # 92 /\ c # 34
             THEN appendStringLoop(buf, str, i, j + 1)
             ELSE IF c \in {92, 34}
             THEN appendStringLoop(flush \o <<92, c>>, str, j + 1, j + 1)
             ELSE IF c = 10
             THEN appendStringLoop(flush \o <<92, 110>>, str, j + 1, j + 1)
             ELSE IF c = 13
             THEN appendStringLoop(flush \o <<92, 114>>, str, j + 1, j + 1)
             ELSE IF c = 9
             THEN appendStringLoop(flush \o <<92, 116>>, str, j + 1, j + 1)
             ELSE IF c \in {60, 62, 38}
             THEN appendStringLoop(flush \o EscapeU00(c), str, j + 1, j + 1)
             ELSE IF c < 32
             THEN appendStringLoop(flush \o EscapeU00(c), str, j + 1, j + 1)
             ELSE LET d == DecodeRuneInString(Slice(str, j, Len(str)))
                  IN  IF d.r = 65533 /\ d.size = 1
                      THEN appendStringLoop(flush \o <<92, 117, 102, 102, 102, 100>>,
                                            str, j + d.size, j + d.size)
                      ELSE IF d.r \in {8232, 8233}
                      THEN appendStringLoop(
                               (flush \o <<92, 117, 50, 48, 50>>) \o <<hex[(d.r % 16) + 1]>>,
                               str, j + d.size, j + d.size)
                      ELSE appendStringLoop(buf, str, i, j + d.size)

AppendString(buf, str, le) ==
    LET valLen == Len(str)
        escapeIdx == IF valLen >= 8 THEN escapeIndex(str, le) ELSE 0
    IN  IF valLen = 0 THEN buf \o <<34, 34>>
        ELSE IF valLen >= 8 /\ escapeIdx < 0 THEN ((buf \o <<34>>) \o str) \o <<34>>
        ELSE appendStringLoop(buf \o <<34>>, str, 0, escapeIdx)

-----------------------------------------------------------------------------
(* The strings the scanner and AppendString are run on: a run of plain     *)
(* bytes, one special piece, a second run of plain bytes and an optional   *)
(* closing special byte.  Runs of up to MaxRun bytes put the special piece *)
(* at every offset of the first 8-byte chunk and at the start of the       *)
(* second one, with and without a tail.                                    *)

Run(b, n) == [i \in 1..n |-> b]

\* one byte of every class the code tells apart, and UTF-8 sequences: U+2028,
\* U+2029, U+00E9, U+FFFD, U+1F600, a truncated sequence, an overlong one and
\* a surrogate
Specials ==
    { <<>>, <<34>>, <<92>>, <<60>>, <<62>>, <<38>>,
      <<10>>, <<13>>, <<9>>, <<1>>, <<31>>, <<32>>, <<127>>, <<128>>, <<255>>,
      <<226, 128, 168>>, <<226, 128, 169>>, <<195, 169>>, <<239, 191, 189>>,
      <<240, 159, 152, 128>>, <<226, 128>>, <<192, 128>>, <<237, 160, 128>> }

Closers == { <<>>, <<34>> }

Strings ==
    { ((Run(97, l) \o x) \o Run(98, r)) \o y :
        l \in 0..MaxRun, x \in Specials, r \in 0..MaxRun, y \in Closers }

Buffers == { <<>>, <<120, 44>> }

StrIdle == s = <<>> /\ sbuf = <<>> /\ idx = 0 /\ sout = <<>> /\ sdone = {}

StrInit ==
    /\ s \in Strings
    /\ sbuf \in Buffers
    /\ idx = 0
    /\ sout = <<>>
    /\ sdone = {}

\* a call of escapeIndex(s)
CallEscapeIndex ==
    /\ "escapeIndex" \notin sdone
    /\ idx' = escapeIndex(s, littleEndian)
    /\ sdone' = sdone \cup {"escapeIndex"}
    /\ UNCHANGED <<s, sbuf, sout>>
    /\ StrFrame

\* a call of AppendString(sbuf, s)
CallAppendString ==
    /\ "AppendString" \notin sdone
    /\ sout' = AppendString(sbuf, s, littleEndian)
    /\ sdone' = sdone \cup {"AppendString"}
    /\ UNCHANGED <<s, sbuf, idx>>
    /\ StrFrame

StrNext == CallEscapeIndex \/ CallAppendString


-----------------------------------------------------------------------------
(* 64-bit integers as 4 limbs of 16 bits, least significant first.         *)

Limb == 65536

Zero4 == <<0, 0, 0, 0>>

\* the sign bit of an int64
IsNeg(x) == x[4] >= 32768

RECURSIVE NegLimbs(_, _, _)
NegLimbs(x, i, carry) ==
    IF i > 4 THEN <<>>
    ELSE LET v == (Limb - 1 - x[i]) + carry
         IN  <<v % Limb>> \o NegLimbs(x, i + 1, v \div Limb)

\* -x modulo 2^64 (Go's wrapping negation)
Neg64(x) == NegLimbs(x, 1, 1)

\* x < k as unsigned numbers, k below 2^16
BelowU(x, k) == x[2] = 0 /\ x[3] = 0 /\ x[4] = 0 /\ x[1] < k

\* the remainder of the limbs i..1 of x, with r carried in from the limbs above
RECURSIVE ModLimbs(_, _, _, _)
ModLimbs(x, d, i, r) ==
    IF i = 0 THEN r ELSE ModLimbs(x, d, i - 1, (r * Limb + x[i]) % d)

\* x % d and x / d for an unsigned x and a divisor d below 2^15
Mod64(x, d) == ModLimbs(x, d, 4, 0)

Div64(x, d) ==
    LET r4 == 0
        r3 == (r4 * Limb + x[4]) % d
        r2 == (r3 * Limb + x[3]) % d
        r1 == (r2 * Limb + x[2]) % d
    IN  << (r1 * Limb + x[1]) \div d, (r2 * Limb + x[2]) \div d,
           (r3 * Limb + x[3]) \div d, (r4 * Limb + x[4]) \div d >>

-----------------------------------------------------------------------------
(* json/encode.go: the integer formatters.                                 *)

intBELookup ==
  << 12336, 12337, 12338, 12339, 12340, 12341, 12342, 12343, 12344, 12345,
     12592, 12593, 12594, 12595, 12596, 12597, 12598, 12599, 12600, 12601,
     12848, 12849, 12850, 12851, 12852, 12853, 12854, 12855, 12856, 12857,
     13104, 13105, 13106, 13107, 13108, 13109, 13110, 13111, 13112, 13113,
     13360, 13361, 13362, 13363, 13364, 13365, 13366, 13367, 13368, 13369,
     13616, 13617, 13618, 13619, 13620, 13621, 13622, 13623, 13624, 13625,
     13872, 13873, 13874, 13875, 13876, 13877, 13878, 13879, 13880, 13881,
     14128, 14129, 14130, 14131, 14132, 14133, 14134, 14135, 14136, 14137,
     14384, 14385, 14386, 14387, 14388, 14389, 14390, 14391, 14392, 14393,
     14640, 14641, 14642, 14643, 14644, 14645, 14646, 14647, 14648, 14649 >>

intLELookup ==
  << 12336, 12592, 12848, 13104, 13360, 13616, 13872, 14128, 14384, 14640,
     12337, 12593, 12849, 13105, 13361, 13617, 13873, 14129, 14385, 14641,
     12338, 12594, 12850, 13106, 13362, 13618, 13874, 14130, 14386, 14642,
     12339, 12595, 12851, 13107, 13363, 13619, 13875, 14131, 14387, 14643,
     12340, 12596, 12852, 13108, 13364, 13620, 13876, 14132, 14388, 14644,
     12341, 12597, 12853, 13109, 13365, 13621, 13877, 14133, 14389, 14645,
     12342, 12598, 12854, 13110, 13366, 13622, 13878, 14134, 14390, 14646,
     12343, 12599, 12855, 13111, 13367, 13623, 13879, 14135, 14391, 14647,
     12344, 12600, 12856, 13112, 13368, 13624, 13880, 14136, 14392, 14648,
     12345, 12601, 12857, 13113, 13369, 13625, 13881, 14137, 14393, 14649 >>

\* init(): the table of the build's byte order
intLookup(le) == IF le THEN intLELookup ELSE intBELookup

\* u[i] = v on the [11]uint16 view of the 22-byte scratch array b: the two
\* bytes of v land at b[2i] and b[2i+1] in the build's byte order
StoreU16(b, i, v, le) ==
    [k \in 1..22 |->
        IF k = 2 * i + 1 THEN (IF le THEN v % 256 ELSE v \div 256)
        ELSE IF k = 2 * i + 2 THEN (IF le THEN v \div 256 ELSE v % 256)
        ELSE b[k]]

\* what a call gave: the returned buffer, or a run-time panic
Returned(out) == [panic |-> FALSE, out |-> out]
Panicked(buf) == [panic |-> TRUE, out |-> buf]

\* x < k for a small k: as int64 when signed (a set sign bit is below every
\* k), as uint64 otherwise
Below(x, k, signed) == IF signed /\ IsNeg(x) THEN TRUE ELSE BelowU(x, k)

\* the loop "for n >= 100" of both formatters: n is an int64 in AppendInt and
\* a uint64 in AppendUint.  The loop body runs on non-negative n only.
RECURSIVE formatPairs(_, _, _, _, _)
formatPairs(x, i, b, le, signed) ==
    IF Below(x, 100, signed) THEN [x |-> x, i |-> i, b |-> b]
    ELSE formatPairs(Div64(x, 100), i - 1,
                     StoreU16(b, i - 1, intLookup(le)[Mod64(x, 100) + 1], le), le, signed)

\* the code of both formatters after the loop: the leading pair, the leading
\* zero and the sign.  intLookup[n] panics when n is not an index of the table.
formatTail(buf, st, negative, le, signed) ==
    IF (signed /\ IsNeg(st.x)) \/ ~BelowU(st.x, 100) THEN Panicked(buf)
    ELSE LET i1 == st.i - 1
             b1 == StoreU16(st.b, i1, intLookup(le)[st.x[1] + 1], le)
             i2 == 2 * i1 + (IF Below(st.x, 10, signed) THEN 1 ELSE 0)
             i3 == IF negative THEN i2 - 1 ELSE i2
             b2 == IF negative THEN [b1 EXCEPT ![i3 + 1] = 45] ELSE b1
         IN  Returned(buf \o SubSeq(b2, i3 + 1, 22))

AppendUint(buf, x, le) ==
    IF BelowU(x, 10) THEN Returned(buf \o <<x[1] + 48>>)
    ELSE IF BelowU(x, 100)
    THEN LET u == intLELookup[x[1] + 1]
         IN  Returned(buf \o <<u % 256, u \div 256>>)
    ELSE formatTail(buf, formatPairs(x, 11, Run(0, 22), le, FALSE), FALSE, le, FALSE)

AppendInt(buf, x, le) ==
    LET negative == IsNeg(x)
        m == IF negative THEN Neg64(x) ELSE x
    IN  IF ~negative /\ BelowU(m, 10) THEN Returned(buf \o <<m[1] + 48>>)
        ELSE IF ~negative /\ BelowU(m, 100)
        THEN LET u == intLELookup[m[1] + 1]
             IN  Returned(buf \o <<u % 256, u \div 256>>)
        ELSE formatTail(buf, formatPairs(m, 11, Run(0, 22), le, TRUE), negative, le, TRUE)

AppendBool(buf, v) ==
    Returned(buf \o (IF v THEN <<116, 114, 117, 101>> ELSE <<102, 97, 108, 115, 101>>))

AppendNull(buf) == Returned(buf \o <<110, 117, 108, 108>>)

\* a loop that writes the low nibble before the high one
RECURSIVE hexLoopLowFirst(_, _, _)
hexLoopLowFirst(buf, v, k) ==
    IF k > Len(v) THEN buf
    ELSE hexLoopLowFirst(buf \o <<hex[AndByte(v[k], 15) + 1], hex[(v[k] \div 16) + 1]>>,
                         v, k + 1)

RECURSIVE hexLoop(_, _, _)
hexLoop(buf, v, k) ==
    IF k > Len(v) THEN buf
    ELSE hexLoop(buf \o <<hex[(v[k] \div 16) + 1], hex[AndByte(v[k], 15) + 1]>>, v, k + 1)

AppendHexBytes(buf, v) == Returned(hexLoop(buf \o <<34>>, v, 1) \o <<34>>)

-----------------------------------------------------------------------------
(* The operands of the primitives.                                         *)

LowLimbs == (0..MaxLow) \cup ((Limb - MaxLow)..(Limb - 1))
MidLimbs == {0, Limb - 1}
HighLimbs == {0, 1, 32767, 32768, Limb - 1}

Ints == { <<a, b, c, d>> : a \in LowLimbs, b \in MidLimbs, c \in MidLimbs, d \in HighLimbs }

HexInputs == { <<>>, <<1, 35, 255>>, <<171, 0>> } \cup { <<b>> : b \in Byte }

PrimIdle ==
    num = Zero4 /\ bv = FALSE /\ hv = <<>> /\ pbuf = <<>> /\ pop = "none" /\ pres = Returned(<<>>)

PrimInit ==
    /\ \/ num \in Ints /\ bv = FALSE /\ hv = <<>>
       \/ num = Zero4 /\ bv = TRUE /\ hv \in HexInputs
    /\ pbuf \in Buffers
    /\ pop = "none"
    /\ pres = Returned(<<>>)

PrimCall(op, res) ==
    /\ pop = "none"
    /\ pop' = op
    /\ pres' = res
    /\ UNCHANGED <<num, bv, hv, pbuf>>
    /\ PrimFrame

CallAppendInt == PrimCall("AppendInt", AppendInt(pbuf, num, littleEndian))
CallAppendUint == PrimCall("AppendUint", AppendUint(pbuf, num, littleEndian))
CallAppendBool == PrimCall("AppendBool", AppendBool(pbuf, bv))
CallAppendNull == PrimCall("AppendNull", AppendNull(pbuf))
CallAppendHexBytes == PrimCall("AppendHexBytes", AppendHexBytes(pbuf, hv))

PrimNext ==
    \/ CallAppendInt
    \/ CallAppendUint
    \/ CallAppendBool
    \/ CallAppendNull
    \/ CallAppendHexBytes


-----------------------------------------------------------------------------
(* retry/retry.go: Build.  Durations are integers (nanoseconds);           *)
(* BackoffFactor is the rational BackoffNum / FactorDen, and               *)
(* time.Duration(float64(ival) * BackoffFactor) is the product truncated   *)
(* towards zero (ival is never negative once the Policy is validated).     *)

Policies ==
    [ BackoffNum : 0..MaxFactorNum,
      MaxInterval : -1..MaxDur,
      MaxIterations : 0..MaxIter,
      MinInterval : -1..MaxDur,
      TotalLimit : -1..MaxTotal ]

\* a Build whose checks leave out the test of a negative TotalLimit
BuildRejectsNoTotalTest(p) ==
    \/ p.MaxIterations = 0 /\ p.TotalLimit = 0
    \/ p.BackoffNum # 0 /\ p.BackoffNum < FactorDen
    \/ p.MaxInterval < p.MinInterval
    \/ p.MinInterval < 0

\* the checks at the head of Build: TRUE when Build returns an error
BuildRejects(p) ==
    \/ p.MaxIterations = 0 /\ p.TotalLimit = 0
    \/ p.BackoffNum # 0 /\ p.BackoffNum < FactorDen
    \/ p.MaxInterval < p.MinInterval
    \/ p.MinInterval < 0
    \/ p.TotalLimit # 0 /\ p.TotalLimit < 0

\* a Build whose BackoffFactor defaults to 2.0
BackoffNumOfDoubling(p) == IF p.BackoffNum = 0 THEN 2 * FactorDen ELSE p.BackoffNum

\* p.BackoffFactor after "if p.BackoffFactor == 0 { p.BackoffFactor = 1.0 }"
BackoffNumOf(p) == IF p.BackoffNum = 0 THEN FactorDen ELSE p.BackoffNum

\* time.Duration(float64(d) * p.BackoffFactor)
Backoff(d, p) == (d * BackoffNumOf(p)) \div FactorDen

\* a Build that stops as soon as the total reaches the limit
overLimitInclusive(p, tot) == p.TotalLimit > 0 /\ tot >= p.TotalLimit

\* p.TotalLimit > 0 && total > p.TotalLimit
overLimit(p, tot) == p.TotalLimit > 0 /\ tot > p.TotalLimit

RetryIdle ==
    /\ policy = [BackoffNum |-> 0, MaxInterval |-> 0, MaxIterations |-> 0,
                 MinInterval |-> 0, TotalLimit |-> 0]
    /\ rpc = "start" /\ h = <<>> /\ ival = 0 /\ total = 0

RetryInit ==
    /\ policy \in Policies
    /\ rpc = "start" /\ h = <<>> /\ ival = 0 /\ total = 0

\* Build up to the loop: the validation, then h := Handler{0}, ival := MinInterval
BuildStart ==
    /\ rpc = "start"
    /\ policy \in Policies
    /\ IF BuildRejects(policy)
       THEN rpc' = "error" /\ UNCHANGED <<h, ival, total>>
       ELSE rpc' = "check" /\ h' = <<0>> /\ ival' = policy.MinInterval /\ total' = 0
    /\ UNCHANGED policy
    /\ RetryFrame

\* the head of the loop: the MaxIterations test
BuildCheck ==
    /\ rpc = "check"
    /\ IF policy.MaxIterations > 0 /\ Len(h) = policy.MaxIterations
       THEN rpc' = "done"
       ELSE rpc' = "body"
    /\ UNCHANGED <<policy, h, ival, total>>
    /\ RetryFrame

\* the rest of the loop body: the next interval, the TotalLimit test, the
\* append.  Beyond MaxHandlerLen elements the Handler is no longer extended:
\* the loop reads len(h) only in "len(h) == 1" and in the MaxIterations test,
\* and MaxIterations is below MaxHandlerLen.
BuildBody ==
    /\ rpc = "body"
    /\ LET ival1 == IF Len(h) = 1 THEN ival
                    ELSE IF Backoff(ival, policy) > policy.MaxInterval
                         THEN policy.MaxInterval
                         ELSE Backoff(ival, policy)
           total1 == IF Len(h) = 1 THEN ival ELSE total + ival1
       IN  /\ ival' = ival1
           /\ total' = total1
           /\ IF overLimit(policy, total1)
              THEN rpc' = "done" /\ h' = h
              ELSE /\ rpc' = "check"
                   /\ h' = IF Len(h) < MaxHandlerLen THEN Append(h, ival1) ELSE h
    /\ UNCHANGED policy
    /\ RetryFrame

RetryNext == BuildStart \/ BuildCheck \/ BuildBody

\* a loop that tests MaxIterations one element late
RECURSIVE buildLoopLate(_, _, _, _)
buildLoopLate(p, hh, iv, tot) ==
    IF p.MaxIterations > 0 /\ Len(hh) = p.MaxIterations + 1 THEN hh
    ELSE buildLoopLate(p, Append(hh, iv), iv, tot)

\* the loop of Build run to its end, for the Handlers the package builds
\* when it is loaded
RECURSIVE buildLoop(_, _, _, _)
buildLoop(p, hh, iv, tot) ==
    IF p.MaxIterations > 0 /\ Len(hh) = p.MaxIterations THEN hh
    ELSE LET ival1 == IF Len(hh) = 1 THEN iv
                      ELSE IF Backoff(iv, p) > p.MaxInterval THEN p.MaxInterval
                           ELSE Backoff(iv, p)
             total1 == IF Len(hh) = 1 THEN iv ELSE tot + ival1
         IN  IF overLimit(p, total1) THEN hh
             ELSE buildLoop(p, Append(hh, ival1), ival1, total1)

\* MustBuild; "panic" when Build returns an error
MustBuild(p) == IF BuildRejects(p) THEN "panic" ELSE buildLoop(p, <<0>>, p.MinInterval, 0)

Default ==
    MustBuild([BackoffNum |-> 0, MaxInterval |-> 0, MaxIterations |-> 5,
               MinInterval |-> 0, TotalLimit |-> 0])

Never ==
    MustBuild([BackoffNum |-> 0, MaxInterval |-> 0, MaxIterations |-> 1,
               MinInterval |-> 0, TotalLimit |-> 0])

-----------------------------------------------------------------------------
(* The Decoder's buffer.  A slice is a record [arr, len, cap]: arr        *)
(* is its backing array up to the last element ever written, the elements  *)
(* beyond it are still the zeros that make and append allocate.            *)

\* make([]byte, 0, 1024) in NewDecoder
NewDecoderCap == 1024

DataBytes == {0, 65}

RECURSIVE SeqsUpTo(_, _)
SeqsUpTo(S, n) ==
    IF n = 0 THEN {<<>>}
    ELSE SeqsUpTo(S, n - 1) \cup
         {Append(q, x) : q \in {r \in SeqsUpTo(S, n - 1) : Len(r) = n - 1}, x \in S}

Zeros(n) == [k \in 1..n |-> 0]

\* sl[i], i from 0
At(sl, i) == IF i + 1 <= Len(sl.arr) THEN sl.arr[i + 1] ELSE 0

\* sl[i] = v, i from 0
Store(sl, i, v) ==
    [sl EXCEPT !.arr = IF i + 1 <= Len(sl.arr) THEN [sl.arr EXCEPT ![i + 1] = v]
                       ELSE (sl.arr \o Zeros(i - Len(sl.arr))) \o <<v>>]

\* a ResetFromBytes that copies nothing
CopySkipped(sl, data) == sl

\* copy(sl, data), for len(data) <= len(sl)
Copy(sl, data) ==
    [sl EXCEPT !.arr = data \o SubSeq(sl.arr, Len(data) + 1, Len(sl.arr))]

\* make([]byte, n)
Make(n) == [arr |-> <<>>, len |-> n, cap |-> n]

\* the bytes of the slice
Bytes(sl) == [k \in 1..sl.len |-> At(sl, k - 1)]

\* a ResetFromBytes that leaves the byte after the data as it finds it
storeNULSkipped(sl, l) == sl

\* d.buf[l] = 0 at the end of ResetFromBytes
storeNUL(sl, l) == Store(sl, l, 0)

\* Decoder.ResetFromBytes
ResetFromBytes(d, data) ==
    LET l == Len(data)
        d1 == IF d.cap < l + 1 THEN Make(l + 1) ELSE [d EXCEPT !.len = l + 1]
    IN  storeNUL(Copy(d1, data), l)

\* append(sl, v) when the capacity is newcap after a reallocation
appendByte(sl, v, newcap) ==
    IF sl.len < sl.cap
    THEN [Store(sl, sl.len, v) EXCEPT !.len = sl.len + 1]
    ELSE [arr |-> Bytes(sl) \o <<v>>, len |-> sl.len + 1, cap |-> newcap]

\* the capacities append may pick for a slice that is full
NewCaps(sl) == (sl.len + 1)..(sl.len + 1 + MaxGrow)

\* a Read into sl[0:cap(sl)], over what the Reads before delivered
readIntoFromStart(sl, data) ==
    [arr |-> data \o SubSeq(sl.arr, Len(data) + 1, Len(sl.arr)),
     len |-> sl.len + Len(data),
     cap |-> sl.cap]

\* r.Read(sl[len(sl):cap(sl)]) that returned Len(data) bytes, then
\* b = b[:len(b)+n]
readInto(sl, data) ==
    [arr |-> IF data = <<>> THEN sl.arr
             ELSE (Bytes(sl) \o data) \o
                  SubSeq(sl.arr, sl.len + Len(data) + 1, Len(sl.arr)),
     len |-> sl.len + Len(data),
     cap |-> sl.cap]

\* the errors a Read may return
ReadErrors == {"EOF", "ErrUnexpectedEOF", "ErrClosedPipe"}

\* a ResetFromReadCloser that returns without closing its source
closeSkipped(log) == log

\* r.Close()
closeSource(log) == Append(log, "Close")

DecIdle ==
    /\ dbuf = [arr |-> <<>>, len |-> 0, cap |-> NewDecoderCap]
    /\ dcursor = 0 /\ dpc = "idle" /\ rbuf = dbuf /\ rclosed = FALSE
    /\ dlast = "none" /\ derr = "nil"
    /\ ddata = <<>> /\ rlog = <<>> /\ rdata = <<>> /\ rsrc = "nil"

\* a Decoder from NewDecoder, or the zero Decoder
DecInit ==
    /\ dbuf \in {[arr |-> <<>>, len |-> 0, cap |-> NewDecoderCap],
                 [arr |-> <<>>, len |-> 0, cap |-> 0]}
    /\ dcursor = 0 /\ dpc = "idle" /\ rbuf = dbuf /\ rclosed = FALSE
    /\ dlast = "none" /\ derr = "nil"
    /\ ddata = <<>> /\ rlog = <<>> /\ rdata = <<>> /\ rsrc = "nil"

\* data is only the source of the copy: the caller's slice stays as it is
CallResetFromBytes ==
    /\ dpc = "idle"
    /\ \E data \in SeqsUpTo(DataBytes, MaxData) :
          /\ dbuf' = ResetFromBytes(dbuf, data)
          /\ ddata' = data
    /\ dcursor' = 0
    /\ dlast' = "ResetFromBytes" /\ derr' = "nil"
    /\ rlog' = <<>> /\ rdata' = <<>> /\ rsrc' = "nil"
    /\ UNCHANGED <<dpc, rbuf, rclosed>>
    /\ DecFrame

\* the decoding of the buffer, which is not part of this file: it has moved
\* the cursor over the bytes in front of the last one
ExternalDecode ==
    /\ dpc = "idle" /\ dlast # "none"
    /\ dcursor = 0 /\ dbuf.len > 1
    /\ dcursor' = dbuf.len - 1
    /\ UNCHANGED <<dbuf, dpc, rbuf, rclosed, dlast, derr, ddata, rlog, rdata, rsrc>>
    /\ DecFrame

\* ResetFromReadCloser up to its loop: b := d.buf[:0]
ReadCloserStart ==
    /\ dpc = "idle"
    /\ rbuf' = [dbuf EXCEPT !.len = 0]
    /\ dpc' = "read"
    /\ rclosed' = FALSE
    /\ rlog' = <<>> /\ rdata' = <<>> /\ rsrc' = "nil"
    /\ ddata' = <<>>
    /\ UNCHANGED <<dbuf, dcursor, dlast, derr>>
    /\ DecFrame

\* where ResetFromReadCloser returns: the NUL on io.EOF, r.Close(), d.buf = b
readCloserReturn(b2, err, newcap) ==
    /\ dbuf' = IF err = "EOF" THEN appendByte(b2, 0, newcap) ELSE b2
    /\ rbuf' = dbuf'
    /\ derr' = IF err = "EOF" THEN "nil" ELSE err
    /\ rclosed' = TRUE
    /\ rlog' = closeSource(Append(rlog, "Read"))
    /\ dcursor' = 0
    /\ dpc' = "idle"
    /\ dlast' = "ResetFromReadCloser"

\* one turn of the loop: grow when full, Read, and on an error the way out
ReadCloserStep ==
    /\ dpc = "read"
    /\ Len(rlog) < MaxReads
    /\ \E nc \in (IF rbuf.len = rbuf.cap THEN NewCaps(rbuf) ELSE {rbuf.cap}) :
        LET b1 == IF rbuf.len = rbuf.cap
                  THEN [appendByte(rbuf, 0, nc) EXCEPT !.len = rbuf.len]
                  ELSE rbuf
        IN  \E data \in SeqsUpTo(DataBytes, MaxData), err \in {"nil"} \cup ReadErrors :
              /\ Len(data) <= b1.cap - b1.len
              /\ b1.len + Len(data) <= MaxData
              /\ rdata' = rdata \o data
              /\ rsrc' = err
              /\ LET b2 == readInto(b1, data)
                 IN  IF err = "nil"
                     THEN /\ rbuf' = b2
                          /\ rlog' = Append(rlog, "Read")
                          /\ UNCHANGED <<dbuf, dcursor, dpc, rclosed, dlast, derr>>
                     ELSE \E nc2 \in (IF err = "EOF" /\ b2.len = b2.cap
                                       THEN NewCaps(b2) ELSE {b2.cap}) :
                              readCloserReturn(b2, err, nc2)
    /\ UNCHANGED ddata
    /\ DecFrame

DecNext == CallResetFromBytes \/ ExternalDecode \/ ReadCloserStart \/ ReadCloserStep

-----------------------------------------------------------------------------
(* cmd/genapi: writeEncodeJSONFunc and the EncodeJSON method it generates. *)
(* The generated method is a list of statements; the generator is modelled *)
(* by the list it writes and the method by running that list on an entity. *)
(* Two revisions of the generator are in the repository, "part_002" and    *)
(* "part_007".                                                             *)

Revisions == {"part_002", "part_007"}

\* the statements of a generated method
App(bytes) == [op |-> "append", arg |-> bytes]      \* b = append(b, bytes...)
AppNetwork == [op |-> "network", arg |-> <<>>]      \* b = append(b, network...)
IfDropped(i) == [op |-> "end", arg |-> 0]           \* a generator that writes no test
If(i) == [op |-> "if", arg |-> i]                   \* if v.F.Set { / if len(v.F) > 0 {
End == [op |-> "end", arg |-> 0]                    \* }
Enc(i) == [op |-> "enc", arg |-> i]                 \* b = <encoder>(b, v.F)
Loop(i) == [op |-> "loop", arg |-> i]               \* for i, elem := range v.F { ... }
RetApp(bytes) == [op |-> "retapp", arg |-> bytes]   \* return append(b, bytes...)
Fix == [op |-> "fix", arg |-> 0]                    \* b[len(b) - 1] = '}'
Ret == [op |-> "ret", arg |-> 0]                    \* return b
Close == [op |-> "close", arg |-> 0]                \* the run-time test of b[last]

\* the bytes appendJSONKey's argument list stands for: prefix"k":suffix
appendJSONKey(k, prefix, suffix) == (((prefix \o <<34>>) \o k) \o <<34, 58>>) \o suffix

\* writeEncodeJSONField of part_007: the statements, and opt as it leaves it
writeEncodeJSONField(i, field, opt) ==
    LET key == appendJSONKey(field.name, opt.Prefix, <<>>)
    IN  IF field.opt
        THEN [code |-> <<If(i), App(key), Enc(i)>> \o
                       (IF opt.Comma THEN <<App(<<44>>), End>>
                                     ELSE <<End, RetApp(<<125>>)>>),
              opt |-> [opt EXCEPT !.Prefix = <<>>]]
        ELSE [code |-> <<App(key), Enc(i)>> \o
                       (IF opt.Comma THEN <<>> ELSE <<RetApp(<<125>>)>>),
              opt |-> [opt EXCEPT !.Prefix = IF opt.Comma THEN <<44>> ELSE <<>>]]

\* writeEncodeJSONFieldRef of part_007
writeEncodeJSONFieldRef(i, field, opt) ==
    LET key == appendJSONKey(field.name, opt.Prefix, <<>>)
    IN  IF field.opt
        THEN [code |-> <<If(i), App(key), Enc(i)>> \o
                       (IF opt.Comma THEN <<App(<<44>>), End>>
                                     ELSE <<End, RetApp(<<125>>)>>),
              opt |-> [opt EXCEPT !.Prefix = <<>>]]
        ELSE [code |-> <<App(key), Enc(i)>> \o
                       (IF opt.Comma THEN <<>> ELSE <<RetApp(<<125>>)>>),
              opt |-> [opt EXCEPT !.Prefix = IF opt.Comma THEN <<44>> ELSE <<>>]]

\* a writeEncodeJSONFieldSlice that writes no test of the slice's length
writeEncodeJSONFieldSliceNoTest(i, field, opt) ==
    LET key == appendJSONKey(field.name, opt.Prefix, <<91>>)
        head == <<App(key), Loop(i)>>
    IN  IF opt.Comma
        THEN [code |-> head \o (IF field.opt THEN <<App(<<93, 44>>), End>> ELSE <<>>),
              opt |-> [opt EXCEPT !.Prefix = IF field.opt THEN <<>> ELSE <<93, 44>>]]
        ELSE [code |-> (head \o <<RetApp(<<93, 125>>)>>) \o
                       (IF field.opt THEN <<End, RetApp(<<125>>)>> ELSE <<>>),
              opt |-> [opt EXCEPT !.Prefix = <<>>]]

\* writeEncodeJSONFieldSlice of part_007
writeEncodeJSONFieldSlice(i, field, opt) ==
    LET key == appendJSONKey(field.name, opt.Prefix, <<91>>)
        head == (IF field.opt THEN <<If(i)>> ELSE <<>>) \o <<App(key), Loop(i)>>
    IN  IF opt.Comma
        THEN [code |-> head \o (IF field.opt THEN <<App(<<93, 44>>), End>> ELSE <<>>),
              opt |-> [opt EXCEPT !.Prefix = IF field.opt THEN <<>> ELSE <<93, 44>>]]
        ELSE [code |-> (head \o <<RetApp(<<93, 125>>)>>) \o
                       (IF field.opt THEN <<End, RetApp(<<125>>)>> ELSE <<>>),
              opt |-> [opt EXCEPT !.Prefix = <<>>]]

\* the switch on the field's type in the loop of writeEncodeJSONFunc
writeField(i, field, opt) ==
    CASE field.kind = "val" -> writeEncodeJSONField(i, field, opt)
      [] field.kind = "ref" -> writeEncodeJSONFieldRef(i, field, opt)
      [] OTHER -> writeEncodeJSONFieldSlice(i, field, opt)

\* the loop of writeEncodeJSONFunc of part_007 from field i on
RECURSIVE writeFields(_, _, _, _)
writeFields(fields, i, code, opt) ==
    IF i > Len(fields) THEN [code |-> code, opt |-> opt]
    ELSE LET field == fields[i]
             opt1 == IF i = Len(fields) /\ ~field.opt
                     THEN [opt EXCEPT !.Comma = FALSE] ELSE opt
             flush == i > 1 /\ field.opt /\ opt1.Prefix # <<>>
             code1 == IF flush THEN Append(code, App(opt1.Prefix)) ELSE code
             opt2 == IF flush THEN [opt1 EXCEPT !.Prefix = <<>>] ELSE opt1
             w == writeField(i, field, opt2)
         IN  writeFields(fields, i + 1, code1 \o w.code, w.opt)

\* writeEncodeJSONFunc of part_007: [fatal, code]; fatal when the generator
\* stops in log.Fatalf
writeEncodeJSONFunc007(fields, network) ==
    LET n == Len(fields)
        start == IF network
                 THEN [code |-> <<AppNetwork>>, opt |-> [Comma |-> n > 1, Prefix |-> <<>>]]
                 ELSE IF n = 0 \/ fields[1].opt
                      THEN [code |-> <<App(<<123>>)>>,
                            opt |-> [Comma |-> n > 1, Prefix |-> <<>>]]
                      ELSE [code |-> <<>>,
                            opt |-> [Comma |-> n > 1, Prefix |-> <<123>>]]
        w == writeFields(fields, 1, start.code, start.opt)
    IN  IF network /\ n = 0 THEN [fatal |-> TRUE, code |-> <<>>]
        ELSE IF w.opt.Prefix # <<>> THEN [fatal |-> TRUE, code |-> w.code]
        ELSE IF ~w.opt.Comma THEN [fatal |-> FALSE, code |-> w.code]
        ELSE [fatal |-> FALSE, code |-> w.code \o <<Fix, Ret>>]

\* the loop of writeEncodeJSONFunc of part_002 from field i on: every field
\* ends in a comma; a []string field has no Model and is passed over
RECURSIVE writeFields002(_, _, _)
writeFields002(fields, i, code) ==
    IF i > Len(fields) THEN code
    ELSE LET field == fields[i]
             key == appendJSONKey(field.name, <<>>, <<>>)
             one == CASE field.kind \in {"val", "ref"} ->
                            IF field.opt
                            THEN <<If(i), App(key), Enc(i), App(<<44>>), End>>
                            ELSE <<App(key), Enc(i), App(<<44>>)>>
                      [] field.kind = "slice" ->
                            ((IF field.opt THEN <<If(i)>> ELSE <<>>) \o
                             <<App(key \o <<91>>), Loop(i), App(<<93, 44>>)>>) \o
                            (IF field.opt THEN <<End>> ELSE <<>>)
                      [] OTHER -> <<>>
         IN  writeFields002(fields, i + 1, code \o one)

\* writeEncodeJSONFunc of part_002
writeEncodeJSONFunc002(fields, network) ==
    IF network /\ Len(fields) = 0 THEN [fatal |-> TRUE, code |-> <<>>]
    ELSE [fatal |-> FALSE,
          code |-> writeFields002(fields, 1,
                       IF network THEN <<AppNetwork>> ELSE <<App(<<123>>)>>)
                   \o <<Close>>]

writeEncodeJSONFunc(rev, fields, network) ==
    IF rev = "part_007" THEN writeEncodeJSONFunc007(fields, network)
    ELSE writeEncodeJSONFunc002(fields, network)

\* the method ran to a return, fell off its end, or died on an index
OK(out) == [status |-> "ok", out |-> out]

\* the statement after the "}" that closes the if opened at pc
RECURSIVE AfterEnd(_, _)
AfterEnd(code, pc) ==
    IF pc > Len(code) THEN pc
    ELSE IF code[pc].op = "end" THEN pc + 1
    ELSE AfterEnd(code, pc + 1)

\* a nested entity and a NetworkIdentifier, as processModels hands them over
\* (fields in the order of their Go names)
InnerFields == <<[name |-> <<120>>, opt |-> FALSE, kind |-> "val"]>>
NetworkIdentifierFields ==
    << [name |-> <<98, 108, 111, 99, 107, 99, 104, 97, 105, 110>>, opt |-> FALSE, kind |-> "val"],
       [name |-> <<110, 101, 116, 119, 111, 114, 107>>, opt |-> FALSE, kind |-> "val"],
       [name |-> <<115, 117, 98, 95, 110, 101, 116, 119, 111, 114, 107, 95, 105, 100, 101, 110, 116, 105, 102, 105, 101, 114>>, opt |-> TRUE, kind |-> "ref"] >>

\* a store of '}' into the first byte of the buffer
storeFirst(b) == [b EXCEPT ![1] = 125]

\* b[len(b) - 1] = '}' on a buffer that is not empty
storeLast(b) == [b EXCEPT ![Len(b)] = 125]

RECURSIVE EncodeJSON(_, _, _, _, _, _), Exec(_, _, _, _, _, _), execLoop(_, _, _, _, _)

\* the for loop over a slice field: a comma before every element but the first
execLoop(rev, kind, count, k, b) ==
    IF k >= count THEN b
    ELSE LET b1 == IF k # 0 THEN b \o <<44>> ELSE b
         IN  execLoop(rev, kind, count, k + 1,
                 IF kind = "slice"
                 THEN EncodeJSON(rev, InnerFields, FALSE, <<1>>, <<>>, b1).out
                 ELSE b1 \o <<34, 115, 34>>)

\* the generated method from statement pc on, for the entity with the field
\* values vals (0: unset or empty; for a slice, its length)
Exec(rev, code, pc, fields, ent, b) ==
    IF pc > Len(code) THEN [status |-> "noreturn", out |-> b]
    ELSE LET st == code[pc]
         IN  CASE st.op = "append" -> Exec(rev, code, pc + 1, fields, ent, b \o st.arg)
               [] st.op = "network" -> Exec(rev, code, pc + 1, fields, ent, b \o ent.network)
               [] st.op = "if" ->
                     IF ent.vals[st.arg] > 0
                     THEN Exec(rev, code, pc + 1, fields, ent, b)
                     ELSE Exec(rev, code, AfterEnd(code, pc), fields, ent, b)
               [] st.op = "end" -> Exec(rev, code, pc + 1, fields, ent, b)
               [] st.op = "enc" ->
                     Exec(rev, code, pc + 1, fields, ent,
                          IF fields[st.arg].kind = "ref"
                          THEN EncodeJSON(rev, InnerFields, FALSE, <<1>>, <<>>, b).out
                          ELSE b \o <<49>>)
               [] st.op = "loop" ->
                     Exec(rev, code, pc + 1, fields, ent,
                          execLoop(rev, fields[st.arg].kind, ent.vals[st.arg], 0, b))
               [] st.op = "retapp" -> OK(b \o st.arg)
               [] st.op = "fix" ->
                     IF Len(b) = 0 THEN [status |-> "panic", out |-> b]
                     ELSE Exec(rev, code, pc + 1, fields, ent, storeLast(b))
               [] st.op = "ret" -> OK(b)
               [] st.op = "close" ->
                     IF Len(b) = 0 THEN [status |-> "panic", out |-> b]
                     ELSE IF b[Len(b)] = 44 THEN OK(storeLast(b))
                     ELSE OK(b \o <<125>>)

\* v.EncodeJSON(b) / v.EncodeJSON(b, network) as the generator of revision
\* rev writes it for an entity with these fields
EncodeJSON(rev, fields, network, vals, blob, b) ==
    LET g == writeEncodeJSONFunc(rev, fields, network)
    IN  IF g.fatal THEN [status |-> "fatal", out |-> b]
        ELSE Exec(rev, g.code, 1, fields, [vals |-> vals, network |-> blob], b)

\* NetworkIdentifier.EncodeNetworkForJSON
EncodeNetworkForJSON(rev, sub) ==
    EncodeJSON(rev, NetworkIdentifierFields, FALSE,
               <<1, 1, IF sub THEN 1 ELSE 0>>, <<>>, <<123, 34, 110, 101, 116, 119, 111, 114, 107, 95, 105, 100, 101, 110, 116, 105, 102, 105, 101, 114, 34, 58>>).out \o <<44>>

\* the entities: 1..MaxFields fields named a, b, c, ..., each required or
\* optional and a plain value, a reference to an entity, a slice of entities
\* or a slice of strings
Kinds == {"val", "ref", "slice", "strs"}

Schemas ==
    UNION { [1..n -> {[name |-> <<>>, opt |-> o, kind |-> k] : o \in BOOLEAN, k \in Kinds}]
            : n \in 1..MaxFields }

Named(sch) == [i \in 1..Len(sch) |-> [sch[i] EXCEPT !.name = <<96 + i>>]]

\* the values a field may hold: a required value is there, an optional one
\* is set or not, a slice has 0..MaxElems elements
ValuesOf(field) ==
    IF field.kind \in {"slice", "strs"} THEN 0..MaxElems
    ELSE IF field.opt THEN {0, 1} ELSE {1}

EncIdle ==
    /\ erev = "part_007" /\ efields = InnerFields /\ enetwork = FALSE
    /\ evals = <<1>> /\ esub = FALSE /\ eblob = <<>> /\ eb0 = <<>>
    /\ eout = OK(<<>>) /\ edone = FALSE

EncInit ==
    /\ erev \in Revisions
    /\ efields \in {Named(sch) : sch \in Schemas}
    /\ enetwork \in BOOLEAN
    /\ evals \in [1..Len(efields) -> 0..MaxElems]
    /\ \A i \in 1..Len(efields) : evals[i] \in ValuesOf(efields[i])
    /\ esub = FALSE
    /\ eblob = <<>>
    /\ eb0 \in Buffers
    /\ eout = OK(<<>>)
    /\ edone = FALSE

\* the client's network is set: the prefix blob is computed once
CallEncodeNetworkForJSON ==
    /\ enetwork /\ eblob = <<>> /\ ~edone
    /\ \E sub \in BOOLEAN :
          /\ esub' = sub
          /\ eblob' = EncodeNetworkForJSON(erev, sub)
    /\ UNCHANGED <<erev, efields, enetwork, evals, eb0, eout, edone>>
    /\ EncFrame

CallEncodeJSON ==
    /\ ~edone
    /\ enetwork => eblob # <<>>
    /\ eout' = EncodeJSON(erev, efields, enetwork, evals, eblob, eb0)
    /\ edone' = TRUE
    /\ UNCHANGED <<erev, efields, enetwork, evals, esub, eblob, eb0>>
    /\ EncFrame

EncNext == CallEncodeNetworkForJSON \/ CallEncodeJSON

-----------------------------------------------------------------------------
(* retry/retry.go: Handler.Iter and Iterator.Next.                         *)

Iterators == {1, 2}

\* Handler.Iter: Iterator{h}
Iter(hd) == [made |-> TRUE, h |-> hd]

\* len(i.h) == 0
exhausted(it) == Len(it.h) = 0

\* a Next that reports no duration
frontZero(it) == 0

\* d := i.h[0]
front(it) == it.h[1]

\* a Next that leaves the Iterator where it is
advanceStuck(it) == it

\* i.h = i.h[1:]
advance(it) == [it EXCEPT !.h = Tail(it.h)]

IterIdle ==
    /\ hnd = <<>>
    /\ its = [i \in Iterators |-> [made |-> FALSE, h |-> <<>>]]
    /\ rets = [i \in Iterators |-> <<>>]
    /\ slept = [i \in Iterators |-> <<>>]

IterInit ==
    /\ hnd \in SeqsUpTo(0..MaxDur, MaxHandler) \cup {Default, Never}
    /\ its = [i \in Iterators |-> [made |-> FALSE, h |-> <<>>]]
    /\ rets = [i \in Iterators |-> <<>>]
    /\ slept = [i \in Iterators |-> <<>>]

CallIter(i) ==
    /\ ~its[i].made
    /\ its' = [its EXCEPT ![i] = Iter(hnd)]
    /\ UNCHANGED <<hnd, rets, slept>>
    /\ IterFrame

\* Iterator.Next; time.Sleep(d) passes the time and changes nothing else
CallNext(i) ==
    /\ its[i].made
    /\ Len(rets[i]) < Len(hnd) + MaxExtra
    /\ IF exhausted(its[i])
       THEN /\ rets' = [rets EXCEPT ![i] = Append(@, FALSE)]
            /\ UNCHANGED <<its, slept>>
       ELSE /\ slept' = [slept EXCEPT ![i] = Append(@, front(its[i]))]
            /\ its' = [its EXCEPT ![i] = advance(its[i])]
            /\ rets' = [rets EXCEPT ![i] = Append(@, TRUE)]
    /\ UNCHANGED hnd
    /\ IterFrame

IterNext == \E i \in Iterators : CallIter(i) \/ CallNext(i)

-----------------------------------------------------------------------------
(* api/support.go: MapObjectFrom and MapObject.Equal.  encoding/json's     *)
(* Marshal is modelled by what it does to a map[string]interface{}: it     *)
(* collects the keys in the map's iteration order, sorts them as strings,  *)
(* and writes each key and value in JSON, with its string escapes.         *)

\* the keys <, B, a, ab and the values 1, "x", "\""
MapKeys == {<<60>>, <<66>>, <<97>>, <<97, 98>>}
MapValues == {[t |-> "num", v |-> <<49>>], [t |-> "str", v |-> <<120>>],
              [t |-> "str", v |-> <<34>>]}

RawMaps ==
    UNION {[K -> MapValues] : K \in {X \in SUBSET MapKeys : Cardinality(X) <= MaxEntries}}

\* the orders in which a range over the map may yield its keys
RECURSIVE Orders(_)
Orders(K) ==
    IF K = {} THEN {<<>>}
    ELSE UNION {{<<k>> \o q : q \in Orders(K \ {k})} : k \in K}

\* a < b for Go strings: byte by byte, a proper prefix first
RECURSIVE LessString(_, _)
LessString(a, b) ==
    IF b = <<>> THEN FALSE
    ELSE IF a = <<>> THEN TRUE
    ELSE IF a[1] # b[1] THEN a[1] < b[1]
    ELSE LessString(Tail(a), Tail(b))

RECURSIVE insertKey(_, _)
insertKey(sorted, k) ==
    IF sorted = <<>> THEN <<k>>
    ELSE IF LessString(k, sorted[1]) THEN <<k>> \o sorted
    ELSE <<sorted[1]>> \o insertKey(Tail(sorted), k)

\* a Marshal that writes the keys as the map yields them
sortKeysSkipped(keys) == keys

\* Marshal's sort of the keys
RECURSIVE sortKeys(_)
sortKeys(keys) ==
    IF keys = <<>> THEN <<>> ELSE insertKey(sortKeys(Tail(keys)), keys[1])

\* a JSON string: quotes around the bytes, with ", \, <, > and & escaped
RECURSIVE jsonEscape(_)
jsonEscape(str) ==
    IF str = <<>> THEN <<>>
    ELSE (CASE str[1] \in {34, 92} -> <<92, str[1]>>
            [] str[1] \in {60, 62, 38} ->
                   <<92, 117, 48, 48, hex[(str[1] \div 16) + 1], hex[(str[1] % 16) + 1]>>
            [] OTHER -> <<str[1]>>) \o jsonEscape(Tail(str))

jsonString(str) == (<<34>> \o jsonEscape(str)) \o <<34>>

jsonValue(val) == IF val.t = "str" THEN jsonString(val.v) ELSE val.v

RECURSIVE jsonEntries(_, _)
jsonEntries(v, keys) ==
    IF keys = <<>> THEN <<>>
    ELSE (((jsonString(keys[1]) \o <<58>>) \o jsonValue(v[keys[1]])) \o
          (IF Len(keys) > 1 THEN <<44>> ELSE <<>>)) \o jsonEntries(v, Tail(keys))

\* stdjson.Marshal(v) when a range over v yields the keys in the order order
Marshal(v, order) == (<<123>> \o jsonEntries(v, sortKeys(order))) \o <<125>>

\* MapObjectFrom; the nil MapObject is the empty byte sequence
MapObjectFrom(v, order) == IF DOMAIN v = {} THEN <<>> ELSE Marshal(v, order)

\* MapObject.Equal
Equal(a, o) == IF Len(a) # Len(o) THEN FALSE ELSE a = o

\* a MarshalJSON without the test for the empty MapObject
MarshalJSONRaw(mo) == mo

\* MapObject.MarshalJSON; its error is always nil
MarshalJSON(mo) == IF Len(mo) = 0 THEN <<123, 125>> ELSE mo

appendMapObject(b, mo) == IF Len(mo) = 0 THEN b \o <<123, 125>> ELSE b \o mo

MapIdle ==
    /\ mmap = <<<<>>, <<>>>>
    /\ mobj = [i \in {1, 2} |-> [done |-> TRUE, bytes |-> <<>>, err |-> "nil"]]
    /\ meq = [done |-> TRUE, val |-> TRUE]
    /\ mjson = [done |-> TRUE, bytes |-> <<123, 125>>]
    /\ mapp = [done |-> TRUE, buf |-> <<>>, out |-> <<123, 125>>]

MapInit ==
    /\ mmap \in [{1, 2} -> RawMaps]
    /\ mobj = [i \in {1, 2} |-> [done |-> FALSE, bytes |-> <<>>, err |-> "nil"]]
    /\ meq = [done |-> FALSE, val |-> FALSE]
    /\ mjson = [done |-> FALSE, bytes |-> <<>>]
    /\ mapp = [done |-> FALSE, buf |-> <<>>, out |-> <<>>]

CallMapObjectFrom(i) ==
    /\ ~mobj[i].done
    /\ \E order \in Orders(DOMAIN mmap[i]) :
          \* the modelled values are all ones Marshal can encode: err is nil
          mobj' = [mobj EXCEPT ![i] = [done |-> TRUE,
                                       bytes |-> MapObjectFrom(mmap[i], order),
                                       err |-> "nil"]]
    /\ UNCHANGED <<mmap, meq, mjson, mapp>>
    /\ MapFrame

CallEqual ==
    /\ mobj[1].done /\ mobj[2].done /\ ~meq.done
    /\ meq' = [done |-> TRUE, val |-> Equal(mobj[1].bytes, mobj[2].bytes)]
    /\ UNCHANGED <<mmap, mobj, mjson, mapp>>
    /\ MapFrame

CallMarshalJSON ==
    /\ mobj[1].done /\ ~mjson.done
    /\ mjson' = [done |-> TRUE, bytes |-> MarshalJSON(mobj[1].bytes)]
    /\ UNCHANGED <<mmap, mobj, meq, mapp>>
    /\ MapFrame

CallAppendMapObject ==
    /\ mobj[1].done /\ ~mapp.done
    /\ \E b \in Buffers :
          mapp' = [done |-> TRUE, buf |-> b, out |-> appendMapObject(b, mobj[1].bytes)]
    /\ UNCHANGED <<mmap, mobj, meq, mjson>>
    /\ MapFrame

MapNext ==
    \/ \E i \in {1, 2} : CallMapObjectFrom(i)
    \/ CallEqual
    \/ CallMarshalJSON
    \/ CallAppendMapObject

-----------------------------------------------------------------------------
(* cmd/genapi: writeEndpoints and the Client method it generates for an     *)
(* endpoint.  The HTTP exchange is the environment's: each turn of the loop  *)
(* ends in one of the Outcomes.                                              *)

Outcomes ==
    {"NewRequestError", "DoError", "200", "200ReadError", "200DecodeError",
     "500", "500ReadError", "500DecodeError", "OtherStatus"}

ClientIdle ==
    /\ cnet = FALSE /\ cretry = <<>> /\ cit = [made |-> FALSE, h |-> <<>>]
    /\ cerr = "nil" /\ cpc = "returned" /\ cret = "CallError" /\ catt = 0 /\ cok = FALSE

ClientInit ==
    /\ cnet \in BOOLEAN
    /\ cretry \in SeqsUpTo(0..MaxDur, MaxHandler)
    /\ cit = [made |-> FALSE, h |-> <<>>]
    /\ cerr = "nil" /\ cpc = "start" /\ cret = "none" /\ catt = 0 /\ cok = FALSE

\* the head of the method: the netjson test, the request's encoding, retry.Iter()
ClientCall ==
    /\ cpc = "start"
    /\ IF ~cnet
       THEN cpc' = "returned" /\ cret' = "CallError" /\ UNCHANGED cit
       ELSE cpc' = "loop" /\ cit' = Iter(cretry) /\ UNCHANGED cret
    /\ UNCHANGED <<cnet, cretry, cerr, catt, cok>>
    /\ ClientFrame

\* one turn of "for it.Next()": Next returned true
ClientAttempt ==
    /\ cpc = "loop" /\ ~exhausted(cit)
    /\ cit' = advance(cit)
    /\ \E o \in Outcomes :
          /\ catt' = IF o = "NewRequestError" THEN catt ELSE catt + 1
          /\ CASE o = "200" ->
                    cerr' = "nil" /\ cpc' = "returned" /\ cret' = "nil" /\ cok' = TRUE
               [] o = "500" ->
                    cerr' = "nil" /\ cpc' = "returned" /\ cret' = "RosettaError"
                    /\ UNCHANGED cok
               [] OTHER ->
                    cerr' = "err" /\ UNCHANGED <<cpc, cret, cok>>
    /\ UNCHANGED <<cnet, cretry>>
    /\ ClientFrame

\* Next returned false: the statements behind the loop
ClientGiveUp ==
    /\ cpc = "loop" /\ exhausted(cit)
    /\ cpc' = "returned"
    /\ cret' = IF cerr # "nil" THEN "CallError" ELSE "nil"
    /\ UNCHANGED <<cnet, cretry, cit, cerr, catt, cok>>
    /\ ClientFrame

ClientNext == ClientCall \/ ClientAttempt \/ ClientGiveUp

-----------------------------------------------------------------------------
(* The specifications: one per component, the other components at rest.    *)

InitString == littleEndian \in BOOLEAN /\ StrInit /\ PrimIdle /\ RetryIdle /\ DecIdle /\ EncIdle /\ IterIdle
    /\ MapIdle /\ ClientIdle
SpecString == InitString /\ [][StrNext]_vars

InitPrim == littleEndian \in BOOLEAN /\ PrimInit /\ StrIdle /\ RetryIdle /\ DecIdle /\ EncIdle /\ IterIdle
    /\ MapIdle /\ ClientIdle
SpecPrim == InitPrim /\ [][PrimNext]_vars

InitRetry == littleEndian = TRUE /\ RetryInit /\ StrIdle /\ PrimIdle /\ DecIdle /\ EncIdle /\ IterIdle
    /\ MapIdle /\ ClientIdle
SpecRetry == InitRetry /\ [][RetryNext]_vars

\* Build is straight-line code and a loop with no blocking call: it keeps
\* taking steps while it has one to take
FairSpecRetry == SpecRetry /\ WF_vars(BuildStart \/ BuildCheck \/ BuildBody)

InitDecoder ==
    littleEndian = TRUE /\ DecInit /\ StrIdle /\ PrimIdle /\ RetryIdle /\ EncIdle
    /\ IterIdle /\ MapIdle /\ ClientIdle
SpecDecoder == InitDecoder /\ [][DecNext]_vars

InitEncoder ==
    littleEndian = TRUE /\ EncInit /\ StrIdle /\ PrimIdle /\ RetryIdle /\ DecIdle
    /\ IterIdle /\ MapIdle /\ ClientIdle
SpecEncoder == InitEncoder /\ [][EncNext]_vars

InitIterator ==
    littleEndian = TRUE /\ IterInit /\ StrIdle /\ PrimIdle /\ RetryIdle /\ DecIdle
    /\ EncIdle /\ MapIdle /\ ClientIdle
SpecIterator == InitIterator /\ [][IterNext]_vars

InitMapObject ==
    littleEndian = TRUE /\ MapInit /\ StrIdle /\ PrimIdle /\ RetryIdle /\ DecIdle
    /\ EncIdle /\ IterIdle /\ ClientIdle
SpecMapObject == InitMapObject /\ [][MapNext]_vars

InitClient ==
    littleEndian = TRUE /\ ClientInit /\ StrIdle /\ PrimIdle /\ RetryIdle /\ DecIdle
    /\ EncIdle /\ IterIdle /\ MapIdle
SpecClient == InitClient /\ [][ClientNext]_vars


-----------------------------------------------------------------------------
(* Reference results the claims compare the code with.                     *)

\* the claim's predicate: a byte below 0x20, '"', '\', or at least 0x80
Escapable(c) == c < 32 \/ c = 34 \/ c = 92 \/ c >= 128

\* the naive scan: the index (from 0) of the first escapable byte, or -1
FirstEscapable(str) ==
    IF \A k \in 1..Len(str) : ~Escapable(str[k]) THEN -1
    ELSE (CHOOSE k \in 1..Len(str) :
             Escapable(str[k]) /\ \A m \in 1..(k - 1) : ~Escapable(str[m])) - 1

\* the decimal digits of an unsigned number, one digit at a time
RECURSIVE RefDigits(_)
RefDigits(x) ==
    IF BelowU(x, 10) THEN <<x[1] + 48>>
    ELSE RefDigits(Div64(x, 10)) \o <<Mod64(x, 10) + 48>>

RefUint(x) == RefDigits(x)
RefInt(x) == IF IsNeg(x) THEN <<45>> \o RefDigits(Neg64(x)) ELSE RefDigits(x)

MinInt64 == <<0, 0, 0, 32768>>

\* the value of a field as JSON text: 1, {"x":1}, or an array of them
RECURSIVE RefElems(_, _)
RefElems(kind, count) ==
    IF count = 0 THEN <<>>
    ELSE (IF count > 1 THEN RefElems(kind, count - 1) \o <<44>> ELSE <<>>) \o
         (IF kind = "slice" THEN <<123, 34, 120, 34, 58, 49, 125>> ELSE <<34, 115, 34>>)

RefValue(field, v) ==
    CASE field.kind = "val" -> <<49>>
      [] field.kind = "ref" -> <<123, 34, 120, 34, 58, 49, 125>>
      [] OTHER -> (<<91>> \o RefElems(field.kind, v)) \o <<93>>

\* part_002 writes no statement for a []string field ("TODO" in its switch)
Encodes(rev, field) == ~(rev = "part_002" /\ field.kind = "strs")

\* a field is emitted when the revision encodes it and it is required or set
\* (a slice: not empty)
Emitted(field, v) == Encodes(erev, field) /\ (~field.opt \/ v > 0)

\* the entity's own emitted fields, "key":value, each preceded by a comma
RECURSIVE RefFields(_, _, _)
RefFields(fields, vals, i) ==
    IF i > Len(fields) THEN <<>>
    ELSE (IF Emitted(fields[i], vals[i])
          THEN ((<<44, 34>> \o fields[i].name) \o <<34, 58>>) \o RefValue(fields[i], vals[i])
          ELSE <<>>) \o RefFields(fields, vals, i + 1)

\* the object with these fields: the leading comma gives way to the brace
RefObject(commaFields) ==
    IF commaFields = <<>> THEN <<123, 125>>
    ELSE (<<123>> \o Tail(commaFields)) \o <<125>>

AllAbsent == \A i \in 1..Len(efields) : efields[i].opt /\ evals[i] = 0

\* what the call appended to the buffer
Appended == SubSeq(eout.out, Len(eb0) + 1, Len(eout.out))

-----------------------------------------------------------------------------
(* The claims.                                                             *)

\* C1: escapeIndex(s) is the index in s of the first escapable byte, as a
\* byte-by-byte scan from index 0 finds it (stated for the little-endian build).
C1_EscapeIndexIsNaiveScan ==
    (littleEndian /\ "escapeIndex" \in sdone) => idx = FirstEscapable(s)

\* C2: escapeIndex(s) returns -1 if and only if no byte of s is escapable,
\* on the word path and on the tail path.
C2_NoneIffNoEscapable ==
    "escapeIndex" \in sdone => ((idx = -1) <=> (\A k \in 1..Len(s) : ~Escapable(s[k])))

\* C2 witness: a string of two full chunks and a tail was scanned and needs
\* no escaping.
C2_Witness == "escapeIndex" \in sdone /\ Len(s) >= 17 /\ idx = -1

\* C3: no '<', '>' or '&' is copied into the output of AppendString: each
\* is replaced by its \u00XX escape.
C3_HtmlBytesEscaped ==
    "AppendString" \in sdone =>
        \A k \in (Len(sbuf) + 1)..Len(sout) : sout[k] \notin {60, 62, 38}

\* C5: AppendInt and AppendUint append the shortest decimal form of every
\* int64 and uint64, as a reference formatter gives it.
C5_IntegersShortestDecimal ==
    /\ pop = "AppendInt" => pres = Returned(pbuf \o RefInt(num))
    /\ pop = "AppendUint" => pres = Returned(pbuf \o RefUint(num))

\* C6: no append primitive panics on a value of its input type.
C6_PrimitivesTotal == pop # "none" => ~pres.panic

\* C7: Build terminates for every Policy: it returns an error or a Handler.
C7_BuildTerminates == <>(rpc \in {"done", "error"})

\* C8 as stated: after any reset, also a ResetFromReadCloser that returned a
\* read error, the buffer is non-empty and its last byte is NUL.
C8_NulTerminatedAfterAnyReset ==
    (dpc = "idle" /\ dlast # "none") =>
        (dbuf.len > 0 /\ At(dbuf, dbuf.len - 1) = 0)

\* C8, amended: after ResetFromBytes, and after a ResetFromReadCloser that
\* returned nil, the buffer is non-empty and its last byte is NUL.
C8_NulTerminatedAfterReset ==
    (dpc = "idle" /\ dlast # "none" /\ derr = "nil") =>
        (dbuf.len > 0 /\ At(dbuf, dbuf.len - 1) = 0)

\* C8 witness: a buffer that held longer data was reset from bytes and holds
\* a non-NUL byte before the terminator
C8_Witness ==
    /\ dpc = "idle" /\ dlast = "ResetFromBytes"
    /\ dbuf.len = 2 /\ dbuf.cap > 2 /\ At(dbuf, 0) # 0 /\ Len(dbuf.arr) > 2

\* C4: an entity whose fields are all optional and all absent encodes to
\* exactly {} after the bytes the buffer held, for any number of fields.
C4_AllAbsentIsEmptyObject ==
    (edone /\ ~enetwork /\ AllAbsent) => eout = OK(eb0 \o <<123, 125>>)

\* C9: the bytes EncodeJSON appends form one object: they end with '}', no
\* comma directly precedes it, and before it stand the opening and the
\* emitted fields with exactly one comma between two of them.
C9_OneObject ==
    edone =>
        /\ eout.status = "ok"
        /\ Len(Appended) >= 2
        /\ Appended[Len(Appended)] = 125
        /\ Appended[Len(Appended) - 1] # 44
        /\ LET own == RefFields(efields, evals, 1)
           IN  SubSeq(Appended, 1, Len(Appended) - 1) =
                   IF enetwork THEN SubSeq(eblob, 1, Len(eblob) - 1) \o own
                   ELSE IF own = <<>> THEN <<123>> ELSE <<123>> \o Tail(own)

\* C10: with the prefix blob a request entity encodes to the object whose
\* first field is "network_identifier", followed by its own emitted fields
\* and '}', whichever of its fields are set.
C10_NetworkPrefixedObject ==
    (edone /\ enetwork) =>
        eout = OK(eb0 \o RefObject(
                    ((<<44, 34, 110, 101, 116, 119, 111, 114, 107, 95, 105, 100, 101, 110, 116, 105, 102, 105, 101, 114, 34, 58>> \o
                      (IF esub THEN <<123, 34, 98, 108, 111, 99, 107, 99, 104, 97, 105, 110, 34, 58, 49, 44, 34, 110, 101, 116, 119, 111, 114, 107, 34, 58, 49, 44, 34, 115, 117, 98, 95, 110, 101, 116, 119, 111, 114, 107, 95, 105, 100, 101, 110, 116, 105, 102, 105, 101, 114, 34, 58, 123, 34, 120, 34, 58, 49, 125, 125>> ELSE <<123, 34, 98, 108, 111, 99, 107, 99, 104, 97, 105, 110, 34, 58, 49, 44, 34, 110, 101, 116, 119, 111, 114, 107, 34, 58, 49, 125>>)) \o
                     RefFields(efields, evals, 1))))

\* what the call appended, without the object's framing: the prefix blob or
\* the opening brace in front, the closing brace behind
FieldBytes ==
    LET body == IF Appended # <<>> /\ Appended[Len(Appended)] = 125
                THEN SubSeq(Appended, 1, Len(Appended) - 1) ELSE Appended
    IN  IF enetwork THEN SubSeq(body, Len(eblob) + 1, Len(body))
        ELSE IF body # <<>> /\ body[1] = 123 THEN Tail(body) ELSE body

\* C11: the fields EncodeJSON writes are, in the order of the declaration,
\* key and value of every required field and of every optional field that is
\* set, separated by commas; an unset optional field contributes no byte.
C11_FieldsEmittedInOrder ==
    (edone /\ erev = "part_007") =>
        /\ eout.status = "ok"
        /\ LET own == RefFields(efields, evals, 1)
           IN  FieldBytes = IF own = <<>> THEN <<>> ELSE Tail(own)

\* C11 witness: a required field and an unset optional one gave {"a":1}
C11_Witness ==
    /\ edone /\ erev = "part_007" /\ ~enetwork /\ Len(efields) = 2
    /\ ~efields[1].opt /\ efields[1].kind = "val"
    /\ efields[2].opt /\ evals[2] = 0
    /\ Appended = <<123, 34, 97, 34, 58, 49, 125>>

\* the five ways a Policy is invalid; BackoffFactor is BackoffNum / FactorDen
PolicyInvalid(p) ==
    \/ p.MaxIterations = 0 /\ p.TotalLimit = 0
    \/ p.BackoffNum # 0 /\ p.BackoffNum < FactorDen
    \/ p.MaxInterval < p.MinInterval
    \/ p.MinInterval < 0
    \/ p.TotalLimit < 0

Trues(i) == Cardinality({k \in 1..Len(rets[i]) : rets[i][k]})

\* C13: on every Iterator the first len(h) calls of Next return true, each
\* taking the front duration of what is left, in order; every later call
\* returns false.
C13_NextWalksHandler ==
    \A i \in Iterators :
        /\ \A k \in 1..Len(rets[i]) : rets[i][k] <=> (k <= Len(hnd))
        /\ slept[i] = SubSeq(hnd, 1, Trues(i))
        /\ its[i].made => its[i].h = SubSeq(hnd, Trues(i) + 1, Len(hnd))

\* C13 witness: an Iterator over three intervals, not all zero, was called
\* MaxExtra times after its end
C13_Witness ==
    /\ Len(hnd) = 3 /\ hnd[2] # 0
    /\ Len(rets[1]) = 3 + MaxExtra
    /\ ~rets[1][3 + MaxExtra]

\* C14: however the calls on two Iterators of one Handler interleave, each
\* returns true at most len(h) times, exactly len(h) times once it has
\* returned false (2 x len(h) when both have), and no step changes the Handler.
C14_IteratorsIndependent ==
    /\ [](\A i \in Iterators :
            /\ Trues(i) <= Len(hnd)
            /\ Len(rets[i]) > Trues(i) => Trues(i) = Len(hnd))
    /\ []((\A i \in Iterators : Len(rets[i]) > Trues(i)) =>
              Trues(1) + Trues(2) = 2 * Len(hnd))
    /\ [][hnd' = hnd]_vars

\* C14 witness: the second Iterator ran to its end while the first was one
\* step into the Handler
C14_Witness ==
    /\ Len(hnd) >= 2
    /\ Len(rets[1]) = 1
    /\ Len(rets[2]) > Len(hnd)

\* the claim's recurrence: the factor, 1.0 when unspecified, as a fraction
\* over FactorDen, and the product cut to a whole duration
RefFactorNum(p) == IF p.BackoffNum = 0 THEN FactorDen ELSE p.BackoffNum
RefNextInterval(d, p) ==
    LET x == (d * RefFactorNum(p)) \div FactorDen
    IN  IF x < p.MaxInterval THEN x ELSE p.MaxInterval

RECURSIVE Sum(_)
Sum(q) == IF q = <<>> THEN 0 ELSE Head(q) + Sum(Tail(q))

\* the interval Build would append next to the Handler hd
RefCandidate(hd, p) ==
    IF Len(hd) = 1 THEN p.MinInterval ELSE RefNextInterval(hd[Len(hd)], p)

\* C16: a Handler that Build returns has at least one interval, at most
\* MaxIterations if that is set, sums to at most TotalLimit if that is set,
\* and is maximal: it is MaxIterations long or the next interval would take
\* the sum above TotalLimit.
C16_HandlerWithinLimits ==
    rpc = "done" =>
        /\ Len(h) >= 1
        /\ policy.MaxIterations > 0 => Len(h) <= policy.MaxIterations
        /\ policy.TotalLimit > 0 => Sum(h) <= policy.TotalLimit
        /\ \/ policy.MaxIterations > 0 /\ Len(h) = policy.MaxIterations
           \/ /\ policy.TotalLimit > 0
              /\ Sum(h) + RefCandidate(h, policy) > policy.TotalLimit

\* C16 witness: a Handler cut short by TotalLimit before MaxIterations
C16_Witness ==
    /\ rpc = "done"
    /\ policy.MaxIterations > 0 /\ Len(h) < policy.MaxIterations
    /\ Len(h) >= 2
    /\ Sum(h) = policy.TotalLimit

\* C17: ResetFromReadCloser closes its source exactly once before it
\* returns, on end-of-stream and on a read error alike, as the last thing it
\* does with it: no Read follows the Close.
C17_SourceClosedOnce ==
    /\ \A k \in 1..Len(rlog) : rlog[k] = "Close" => k = Len(rlog)
    /\ dpc = "read" => \A k \in 1..Len(rlog) : rlog[k] = "Read"
    /\ (dpc = "idle" /\ dlast = "ResetFromReadCloser") =>
           (rlog # <<>> /\ rlog[Len(rlog)] = "Close")

\* C17 witness: a call returned a read error after a second Read
C17_Witness ==
    /\ dpc = "idle" /\ dlast = "ResetFromReadCloser"
    /\ derr \notin {"nil", "EOF"}
    /\ rlog = <<"Read", "Read", "Close">>

\* C18: when ResetFromReadCloser returns, it returns nil exactly if the last
\* Read gave io.EOF and otherwise that Read's error; on nil the buffer is all
\* the bytes the Reads delivered, followed by one NUL, and the cursor is 0.
C18_ReadCloserResult ==
    [][(dpc = "read" /\ dpc' = "idle") =>
          /\ (derr' = "nil") <=> (rsrc' = "EOF")
          /\ rsrc' # "EOF" => derr' = rsrc'
          /\ derr' = "nil" =>
                (Bytes(dbuf') = rdata' \o <<0>> /\ dcursor' = 0)]_vars

\* C18 witness: two Reads delivered a byte each, the second one a NUL byte,
\* and the call returned nil
C18_Witness ==
    /\ dpc = "idle" /\ dlast = "ResetFromReadCloser" /\ derr = "nil"
    /\ rlog = <<"Read", "Read", "Close">>
    /\ rdata = <<65, 0>>
    /\ dbuf.len = 3 /\ dcursor = 0

\* C19: a ResetFromBytes(data) leaves a buffer of len(data)+1 bytes: data,
\* then NUL, with the cursor at 0, whatever the Decoder held before.
C19_ResetFromBytesResult ==
    [][CallResetFromBytes =>
          /\ dbuf'.len = Len(ddata') + 1
          /\ Bytes(dbuf') = ddata' \o <<0>>
          /\ dcursor' = 0]_vars

\* C19 witness: one byte was copied into a buffer of larger capacity
C19_Witness ==
    /\ dpc = "idle" /\ dlast = "ResetFromBytes"
    /\ ddata = <<65>> /\ dbuf.cap = 3 /\ dcursor = 0

\* the keys of a map in ascending order of their bytes
Ascending(K) ==
    CHOOSE q \in Orders(K) : \A i \in 1..(Len(q) - 1) : LessString(q[i], q[i + 1])

\* the bytes of a map written with its entries in ascending key order; the
\* empty map has no bytes
Canonical(v) ==
    IF DOMAIN v = {} THEN <<>>
    ELSE (<<123>> \o jsonEntries(v, Ascending(DOMAIN v))) \o <<125>>

\* C20: the two MapObjects have the same bytes exactly if the two maps have
\* the same keys and values, in whatever order the maps yield their keys;
\* the keys stand in ascending byte order; Equal is true exactly if the
\* bytes are the same.
C20_MapObjectCanonical ==
    /\ \A i \in {1, 2} : mobj[i].done => mobj[i].bytes = Canonical(mmap[i])
    /\ (mobj[1].done /\ mobj[2].done) =>
           ((mobj[1].bytes = mobj[2].bytes) <=> (mmap[1] = mmap[2]))
    /\ meq.done => (meq.val <=> (mobj[1].bytes = mobj[2].bytes))

\* C20 witness: two equal maps of two entries each gave MapObjects that
\* Equal calls equal
C20_Witness ==
    /\ meq.done /\ meq.val
    /\ mmap[1] = mmap[2]
    /\ Cardinality(DOMAIN mmap[1]) = 2

\* C21: for an empty map MapObjectFrom gives no error, MarshalJSON gives
\* exactly {} for the MapObject it returned, and appendMapObject appends
\* exactly {} to the buffer.
C21_EmptyMapIsEmptyObject ==
    (mobj[1].done /\ DOMAIN mmap[1] = {}) =>
        /\ mobj[1].err = "nil"
        /\ mjson.done => mjson.bytes = <<123, 125>>
        /\ mapp.done => mapp.out = mapp.buf \o <<123, 125>>

\* C21 witness: an empty map was encoded, marshalled and appended to a
\* buffer that held bytes already
C21_Witness ==
    /\ mobj[1].done /\ DOMAIN mmap[1] = {}
    /\ mjson.done /\ mapp.done
    /\ mapp.buf # <<>>

\* the escape of one byte below 0x80, as a byte-by-byte escaper writes it
RefEscapeByte(c) ==
    IF c \in {34, 92} THEN <<92, c>>
    ELSE IF c = 10 THEN <<92, 110>>
    ELSE IF c = 13 THEN <<92, 114>>
    ELSE IF c = 9 THEN <<92, 116>>
    ELSE IF c < 32 THEN <<92, 117, 48, 48, hex[(c \div 16) + 1], hex[(c % 16) + 1]>>
    ELSE <<c>>

RECURSIVE RefEscapeAscii(_)
RefEscapeAscii(str) ==
    IF str = <<>> THEN <<>> ELSE RefEscapeByte(str[1]) \o RefEscapeAscii(Tail(str))

IsAscii(str) == \A k \in 1..Len(str) : str[k] < 128

\* C22: for a string of bytes below 0x80 AppendString appends a quote, the
\* bytes in input order, each one verbatim or replaced by its escape (\", \\,
\* \n, \r, \t, \u00XX for the other bytes below 0x20), and a quote; the empty
\* string gives "".
C22_AsciiEscapedByteByByte ==
    ("AppendString" \in sdone /\ IsAscii(s)) =>
        sout = ((sbuf \o <<34>>) \o RefEscapeAscii(s)) \o <<34>>

\* x * 10 + d on the four limbs of a 64-bit number
RECURSIVE RefMulAddLimbs(_, _, _)
RefMulAddLimbs(x, i, carry) ==
    IF i > 4 THEN <<>>
    ELSE LET v == x[i] * 10 + carry
         IN  <<v % Limb>> \o RefMulAddLimbs(x, i + 1, v \div Limb)

\* a reference JSON reader for numbers: the digits read from the left
RECURSIVE RefParseDigits(_, _)
RefParseDigits(bytes, acc) ==
    IF bytes = <<>> THEN acc
    ELSE RefParseDigits(Tail(bytes), RefMulAddLimbs(acc, 1, bytes[1] - 48))

IsDigits(bytes) == bytes # <<>> /\ \A k \in 1..Len(bytes) : bytes[k] \in 48..57

RefParseUint(bytes) ==
    IF IsDigits(bytes) THEN RefParseDigits(bytes, Zero4) ELSE <<>>

RefParseInt(bytes) ==
    IF bytes # <<>> /\ bytes[1] = 45
    THEN (IF IsDigits(Tail(bytes)) THEN Neg64(RefParseDigits(Tail(bytes), Zero4)) ELSE <<>>)
    ELSE RefParseUint(bytes)

\* a reference JSON reader for true and false; "none" for other bytes
RefParseBool(bytes) ==
    IF bytes = <<116, 114, 117, 101>> THEN "true"
    ELSE IF bytes = <<102, 97, 108, 115, 101>> THEN "false"
    ELSE "none"

\* the value of a hex digit, -1 for other bytes
RefHexVal(c) ==
    IF c \in 48..57 THEN c - 48 ELSE IF c \in 97..102 THEN c - 87 ELSE -1

\* a reference reader for a quoted hex string: the bytes, or <<-1>> if the
\* input is not one
RECURSIVE RefUnhex(_)
RefUnhex(bytes) ==
    IF bytes = <<>> THEN <<>>
    ELSE IF Len(bytes) = 1 \/ RefHexVal(bytes[1]) < 0 \/ RefHexVal(bytes[2]) < 0 THEN <<-1>>
    ELSE <<RefHexVal(bytes[1]) * 16 + RefHexVal(bytes[2])>> \o RefUnhex(Tail(Tail(bytes)))

RefParseHex(bytes) ==
    IF Len(bytes) >= 2 /\ bytes[1] = 34 /\ bytes[Len(bytes)] = 34
    THEN RefUnhex(SubSeq(bytes, 2, Len(bytes) - 1))
    ELSE <<-1>>

\* the bytes a primitive appended to pbuf
PrimAppended == SubSeq(pres.out, Len(pbuf) + 1, Len(pres.out))

\* C23: what AppendBool, AppendInt, AppendUint and AppendHexBytes append is
\* read back by a reference JSON reader as the value that was given.
C23_PrimitivesRoundTrip ==
    /\ pop = "AppendBool" =>
           ~pres.panic /\ RefParseBool(PrimAppended) = (IF bv THEN "true" ELSE "false")
    /\ pop = "AppendInt" => ~pres.panic /\ RefParseInt(PrimAppended) = num
    /\ pop = "AppendUint" => ~pres.panic /\ RefParseUint(PrimAppended) = num
    /\ pop = "AppendHexBytes" => ~pres.panic /\ RefParseHex(PrimAppended) = hv

\* the fields writeEncodeJSONFieldSlice is called for
IsSliceField(rev, field) == field.kind \in {"slice", "strs"} /\ Encodes(rev, field)

RefSeqLen(str) ==
    LET n == Len(str)
        cont(k) == k <= n /\ str[k] \in 128..191
        in(k, lo, hi) == k <= n /\ str[k] \in lo..hi
    IN  IF str[1] < 128 THEN 1
        ELSE IF str[1] \in 194..223 /\ cont(2) THEN 2
        ELSE IF str[1] = 224 /\ in(2, 160, 191) /\ cont(3) THEN 3
        ELSE IF str[1] \in (225..236) \cup {238, 239} /\ cont(2) /\ cont(3) THEN 3
        ELSE IF str[1] = 237 /\ in(2, 128, 159) /\ cont(3) THEN 3
        ELSE IF str[1] = 240 /\ in(2, 144, 191) /\ cont(3) /\ cont(4) THEN 4
        ELSE IF str[1] \in 241..243 /\ cont(2) /\ cont(3) /\ cont(4) THEN 4
        ELSE IF str[1] = 244 /\ in(2, 128, 143) /\ cont(3) /\ cont(4) THEN 4
        ELSE 0

\* a string escaped one character at a time: bytes below 0x80 as in
\* RefEscapeByte, a byte that starts no well-formed sequence as the escape of U+FFFD,
\* U+2028 and U+2029 as their six-byte escapes, other sequences verbatim
RECURSIVE RefEscapeString(_)
RefEscapeString(str) ==
    IF str = <<>> THEN <<>>
    ELSE LET n == RefSeqLen(str)
             seq == SubSeq(str, 1, n)
         IN  IF n = 0 THEN <<92, 117, 102, 102, 102, 100>> \o RefEscapeString(Tail(str))
             ELSE (IF n = 1 THEN RefEscapeByte(str[1])
                   ELSE IF seq = <<226, 128, 168>> THEN <<92, 117, 50, 48, 50, 56>>
                   ELSE IF seq = <<226, 128, 169>> THEN <<92, 117, 50, 48, 50, 57>>
                   ELSE seq) \o RefEscapeString(SubSeq(str, n + 1, Len(str)))

\* C25: for a string with bytes of 0x80 and above AppendString writes
\* the escape of U+FFFD for each byte that starts no well-formed UTF-8 sequence, the
\* six-byte escapes for U+2028 and U+2029, and every other multi-byte sequence
\* as it is.
C25_Utf8Handled ==
    ("AppendString" \in sdone /\ ~IsAscii(s)) =>
        sout = ((sbuf \o <<34>>) \o RefEscapeString(s)) \o <<34>>

\* C26: an Iterator over the Default Handler returns true from exactly its
\* first 5 calls of Next and one over the Never Handler from exactly its
\* first call, every wait being zero; all later calls return false.
C26_DefaultAndNever ==
    \A i \in Iterators :
        /\ hnd = Default =>
               /\ \A k \in 1..Len(rets[i]) : rets[i][k] <=> (k <= 5)
               /\ \A k \in 1..Len(slept[i]) : slept[i][k] = 0
        /\ hnd = Never =>
               /\ \A k \in 1..Len(rets[i]) : rets[i][k] <=> (k <= 1)
               /\ \A k \in 1..Len(slept[i]) : slept[i][k] = 0

\* C26 witness: an Iterator over Default gave five times true and then false
C26_Witness ==
    /\ hnd = Default
    /\ Len(rets[1]) >= 6 /\ rets[1][5] /\ ~rets[1][6]
    /\ Len(slept[1]) = 5

\* the lowercase hex digit of a nibble
RefHexDigit(n) == IF n < 10 THEN 48 + n ELSE 87 + n

\* C27: AppendHexBytes appends 2 * len(v) + 2 bytes: a quote, for each byte
\* of v in order the hex digit of its high nibble and that of its low
\* nibble, and a quote.
C27_HexBytesTwoDigitsPerByte ==
    pop = "AppendHexBytes" =>
        /\ ~pres.panic
        /\ Len(pres.out) = Len(pbuf) + 2 * Len(hv) + 2
        /\ SubSeq(pres.out, 1, Len(pbuf)) = pbuf
        /\ PrimAppended[1] = 34 /\ PrimAppended[Len(PrimAppended)] = 34
        /\ \A k \in 1..Len(hv) :
               /\ PrimAppended[2 * k] = RefHexDigit(hv[k] \div 16)
               /\ PrimAppended[2 * k + 1] = RefHexDigit(hv[k] % 16)

\* C27 witness: the bytes 01 23 ff were appended to a buffer holding bytes
C27_Witness ==
    /\ pop = "AppendHexBytes" /\ hv = <<1, 35, 255>> /\ pbuf # <<>>
    /\ PrimAppended = <<34, 48, 49, 50, 51, 102, 102, 34>>

C29_ProbeDoesNotChangeOutput ==
    ("AppendString" \in sdone /\ Len(s) >= 8) =>
        /\ sout = appendStringLoop(sbuf \o <<34>>, s, 0, 0)
        /\ \A k \in 1..escapeIndex(s, littleEndian) : ~Escapable(s[k])

\* C30: an endpoint call returns nil only if a 200 response was received
\* and decoded without error during it; a call without such an attempt
\* returns a ClientError, whatever Handler was passed, the empty one
\* included; and no more requests are sent than the Handler has elements.
C30_NilOnlyAfterSuccess ==
    /\ cpc = "returned" => ((cret = "nil") <=> cok)
    /\ catt <= Len(cretry)

=============================================================================
